---- MODULE Spec2Model ----
(***************************************************************************)
(* OurBlock status dashboard (deploy/status-dashboard/server.py).          *)
(*                                                                         *)
(* One background thread (update_stats, the Poller) rewrites the global    *)
(* dict stats_cache field by field every 10 seconds; Flask handler threads *)
(* read the same dict without any lock.  The model keeps every statement   *)
(* of the Poller that writes the cache as one step and every subscript     *)
(* read of a handler as one step, so that thread switches between them are *)
(* interleavings of the model.                                             *)
(***************************************************************************)
EXTENDS Integers, Sequences, FiniteSets, TLC

\* ------------------------------------------------------------------ bounds
\* Number of poll cycles that are told apart; later cycles run on, but are
\* counted (and clocked) as the last one.
\* The uptimes explored for format_uptime lie within UptimeDelta seconds of
\* the marks below.
UptimeDelta == 2
\* The longest time the body of one cycle takes, in seconds: longer than the
\* sleep of line 147.
MaxBody == 12
MaxCycles == 2

\* ------------------------------------------------------- program constants
SLEEP_SECONDS == 10
HTTP_OK == 200
HTTP_NOT_FOUND == 404
BYTES_PER_MB == 1048576
\* time.time() at import (line 33).
T0 == 100

Min(a, b) == IF a < b THEN a ELSE b

\* The three logical names of get_container_status (lines 74-78).
Names == {"conductor", "lair", "ui"}

\* Representation of Python's None for last_update (an ISO timestamp is
\* represented by the clock value it formats, which is >= T0).
NoTimestamp == -1

\* ------------------------------------------------------------- environment
\* Files under DATA_DIR and their sizes in bytes.
Files == {"f1", "f2", "f3"}
Size(f) ==
    IF f = "f1" THEN 12 * BYTES_PER_MB
    ELSE IF f = "f2" THEN BYTES_PER_MB \div 2
    ELSE 5243

\* What a concurrent process does to a listed file while the scan runs.
Fates == {"stays", "gone_before_exists", "gone_before_getsize"}

\* Outcome of one requests.get / requests.post call.
Raised == [kind |-> "raised", status_code |-> 0]
Response(s) == [kind |-> "response", status_code |-> s]
NoCall == [kind |-> "none", status_code |-> 0]
HttpReplies == {Raised} \cup {Response(s) : s \in {HTTP_OK, HTTP_NOT_FOUND, 500}}

\* JSON bodies of the admin endpoint.  "peers" is meaningful only when the
\* key is present.
PeerCounts == {3, 5}
Body(j, n, keys, p) == [json |-> j, len |-> n, keys |-> keys, peers |-> p]
None == Body("null", 0, {}, 0)
Malformed == Body("malformed", 0, {}, 0)
JsonArray(n) == Body("array", n, {}, 0)
JsonObject(keys, p) == Body("object", Cardinality(keys), keys, p)
Bodies ==
    {None, Malformed, JsonArray(1), JsonObject({}, 0), JsonObject({"version"}, 0)}
        \cup {JsonObject({"peers"}, p) : p \in PeerCounts}

AdminReply(k, s, b) == [kind |-> k, status_code |-> s, body |-> b]
AdminNoCall == AdminReply("none", 0, None)
AdminReplies ==
    {AdminReply("raised", 0, None), AdminReply("response", 500, None)}
        \cup {AdminReply("response", HTTP_OK, b) : b \in Bodies}

\* Outcome of client.containers.get(name): a lifecycle state, NotFound, or
\* any other exception.
LifecycleStates == {"running", "exited"}
LookupOutcomes == LifecycleStates \cup {"NotFound", "APIError"}

VARIABLES
    stats_cache,        \* the global dict (lines 30-39)
    DOCKER_AVAILABLE,   \* set once at import (lines 23-27)
    pc,                 \* position of the update_stats thread
    now,                \* the wall clock
    sock,               \* environment: the container runtime socket exists
    disk,               \* environment: the files that exist under DATA_DIR
    cycle,              \* history: number of the cycle in progress
    written,            \* history: for each cache field, the cycle whose step last ran
    trace,              \* history: what the probes of the current cycle met
    req                 \* the handler thread

vars == <<stats_cache, DOCKER_AVAILABLE, pc, now, sock, disk, cycle, written, trace, req>>

Fields == {"online", "uptime", "storage_used_mb", "containers", "peers_connected", "last_update"}

EmptyDict == [n \in {} |-> "unknown"]

\* ---------------------------------------------------------- pure functions

\* get_storage_used (lines 54-65).  listing is what os.walk enumerates;
\* the result is in bytes (the division by 2^20 of line 65 is exact in a
\* double, so the cache value is represented by its numerator).
RECURSIVE ScanFrom(_, _, _, _)
ScanFrom(listing, fate, i, total_size) ==
    IF i > Len(listing) THEN total_size
    ELSE IF fate[listing[i]] = "stays"
         THEN ScanFrom(listing, fate, i + 1, total_size + Size(listing[i]))
    ELSE IF fate[listing[i]] = "gone_before_exists"
         THEN ScanFrom(listing, fate, i + 1, total_size)     \* line 61 is false
    ELSE total_size                  \* getsize raises, caught at line 63

get_storage_used(listing, fate) == ScanFrom(listing, fate, 1, 0)

Listings(S) == {l \in [1..Cardinality(S) -> S] : \A f \in S : \E i \in DOMAIN l : l[i] = f}

\* A variant of get_container_status with one try block around the whole
\* loop: the first failing lookup loses every name.
get_container_status_one_try(available, from_env_ok, lookup) ==
    IF ~available
    THEN [n \in Names |-> "docker unavailable"]
    ELSE IF ~from_env_ok \/ \E n \in Names : lookup[n] \notin LifecycleStates
    THEN [n \in Names |-> "unknown"]
    ELSE [n \in Names |-> lookup[n]]

\* A variant of get_container_status that leaves out the names whose
\* container does not exist.
get_container_status_found_only(available, from_env_ok, lookup) ==
    IF ~available
    THEN [n \in Names |-> "docker unavailable"]
    ELSE IF ~from_env_ok
    THEN [n \in Names |-> "unknown"]
    ELSE [n \in {m \in Names : lookup[m] # "NotFound"} |->
            IF lookup[n] \in LifecycleStates THEN lookup[n] ELSE "unknown"]

\* get_container_status (lines 67-92).
get_container_status(available, from_env_ok, lookup) ==
    IF ~available
    THEN [n \in Names |-> "docker unavailable"]
    ELSE IF ~from_env_ok
    THEN [n \in Names |-> "unknown"]
    ELSE [n \in Names |->
            IF lookup[n] \in LifecycleStates THEN lookup[n]
            ELSE IF lookup[n] = "NotFound" THEN "not found"
            ELSE "unknown"]

\* get_conductor_stats (lines 94-107): the parsed body, or None.
get_conductor_stats(reply) ==
    IF reply.kind = "response" /\ reply.status_code = HTTP_OK /\ reply.body.json # "malformed"
    THEN reply.body
    ELSE None

\* Python truth value of a parsed JSON value (line 138).
Truthy(v) == (v.json = "object" /\ v.keys # {}) \/ (v.json = "array" /\ v.len > 0)

\* dict.get('peers', 0) (line 139).
DictGet(v, default) == IF "peers" \in v.keys THEN v.peers ELSE default

\* A variant of format_uptime whose hours are not taken within the day.
format_uptime_total_hours(seconds) ==
    LET days == seconds \div 86400
        hours == seconds \div 3600
        minutes == (seconds % 3600) \div 60
    IN  IF days > 0 THEN <<<<days, "d">>, <<hours, "h">>, <<minutes, "m">>>>
        ELSE IF hours > 0 THEN <<<<hours, "h">>, <<minutes, "m">>>>
        ELSE <<<<minutes, "m">>>>

\* format_uptime (lines 41-52).  The string is represented by its parts:
\* "1d 1h 1m" is <<<<1, "d">>, <<1, "h">>, <<1, "m">>>>.
format_uptime(seconds) ==
    LET days == seconds \div 86400
        hours == (seconds % 86400) \div 3600
        minutes == (seconds % 3600) \div 60
    IN  IF days > 0 THEN <<<<days, "d">>, <<hours, "h">>, <<minutes, "m">>>>
        ELSE IF hours > 0 THEN <<<<hours, "h">>, <<minutes, "m">>>>
        ELSE <<<<minutes, "m">>>>

\* round(storage_used_mb, 2) (line 167), in hundredths of a MB, for a value
\* of bytes / 2^20: Python rounds the exact value, a tie to the even digit.
round2(bytes) ==
    LET q == (bytes * 100) \div BYTES_PER_MB
        r == (bytes * 100) % BYTES_PER_MB
    IN  IF 2 * r < BYTES_PER_MB THEN q
        ELSE IF 2 * r > BYTES_PER_MB THEN q + 1
        ELSE IF q % 2 = 0 THEN q ELSE q + 1

\* NEIGHBORHOOD_ID (line 18), at its default.
NEIGHBORHOOD_ID == "unknown"

\* ------------------------------------------------------------------- state
NoTrace ==
    [primary |-> NoCall, fallback |-> NoCall, requests |-> 0, online_writes |-> 0,
     scan |-> "none", stayed |-> {},
     runtime_called |-> FALSE, from_env_ok |-> FALSE,
     lookup |-> [n \in Names |-> "none"],
     admin |-> AdminNoCall,
     peers_before |-> 0,
     error |-> FALSE,
     body |-> 0]

NoResponse == [k \in {} |-> 0]
IdleReq == [handler |-> "none", rpc |-> "idle", resp |-> NoResponse, from |-> {}]

Init ==
    /\ stats_cache =
         [online |-> FALSE, uptime |-> 0, start_time |-> T0, vouches_processed |-> 0,
          storage_used_mb |-> 0, peers_connected |-> 0, containers |-> EmptyDict,
          last_update |-> NoTimestamp]
    /\ DOCKER_AVAILABLE \in BOOLEAN
    /\ sock \in BOOLEAN
    /\ disk \in SUBSET Files
    /\ pc = "health"
    /\ now = T0
    /\ cycle = 1
    /\ written = [f \in Fields |-> 0]
    /\ trace = NoTrace
    /\ req = IdleReq

\* --------------------------------------------------------- the Poller thread
\* Every probe step takes the set its environment's answer is drawn from, so
\* that a specification can explore one probe's answers in full while the
\* others stay on a few representative ones.

\* A variant of the primary check that marks the node offline as soon as
\* the request raises, before the alternative check is tried.
HealthPrimary_offline_first(Replies) ==
    /\ pc = "health"
    /\ \E reply \in Replies :
        /\ trace' = [trace EXCEPT !.primary = reply, !.requests = @ + 1,
                                  !.online_writes = @ + 1,
                                  !.peers_before = stats_cache.peers_connected]
        /\ stats_cache' = [stats_cache EXCEPT !.online =
                              reply.kind = "response" /\ reply.status_code = HTTP_OK]
        /\ pc' = IF reply.kind = "response" THEN "uptime" ELSE "fallback"
    /\ written' = [written EXCEPT !["online"] = cycle]
    /\ UNCHANGED <<DOCKER_AVAILABLE, now, sock, disk, cycle, req>>

\* Lines 116-119: the primary liveness request.
HealthPrimary(Replies) ==
    /\ pc = "health"
    /\ \E reply \in Replies :
        /\ trace' = [trace EXCEPT !.primary = reply, !.requests = @ + 1,
                                  !.online_writes = IF reply.kind = "response" THEN @ + 1 ELSE @,
                                  !.peers_before = stats_cache.peers_connected]
        /\ IF reply.kind = "response"
           THEN /\ stats_cache' = [stats_cache EXCEPT !.online = (reply.status_code = HTTP_OK)]
                /\ written' = [written EXCEPT !["online"] = cycle]
                /\ pc' = "uptime"
           ELSE /\ pc' = "fallback"
                /\ UNCHANGED <<stats_cache, written>>
    /\ UNCHANGED <<DOCKER_AVAILABLE, now, sock, disk, cycle, req>>

\* A variant of the alternative health check that accepts only 200.
HealthFallback_ok_only(Replies) ==
    /\ pc = "fallback"
    /\ \E reply \in Replies :
        /\ trace' = [trace EXCEPT !.fallback = reply, !.requests = @ + 1,
                                  !.online_writes = @ + 1]
        /\ stats_cache' = [stats_cache EXCEPT !.online =
                              reply.kind = "response" /\ reply.status_code = HTTP_OK]
    /\ written' = [written EXCEPT !["online"] = cycle]
    /\ pc' = "uptime"
    /\ UNCHANGED <<DOCKER_AVAILABLE, now, sock, disk, cycle, req>>

\* Lines 120-125: the alternative health check.
HealthFallback(Replies) ==
    /\ pc = "fallback"
    /\ \E reply \in Replies :
        /\ trace' = [trace EXCEPT !.fallback = reply, !.requests = @ + 1,
                                  !.online_writes = @ + 1]
        /\ stats_cache' = [stats_cache EXCEPT !.online =
                              IF reply.kind = "response"
                              THEN reply.status_code \in {HTTP_OK, HTTP_NOT_FOUND}
                              ELSE FALSE]
    /\ written' = [written EXCEPT !["online"] = cycle]
    /\ pc' = "uptime"
    /\ UNCHANGED <<DOCKER_AVAILABLE, now, sock, disk, cycle, req>>

\* A variant of line 128 that measures the uptime from the previous cycle.
UpdateUptime_restarts ==
    /\ pc = "uptime"
    /\ stats_cache' = [stats_cache EXCEPT !.uptime = now - stats_cache.start_time,
                                          !.start_time = now]
    /\ written' = [written EXCEPT !["uptime"] = cycle]
    /\ pc' = "storage"
    /\ UNCHANGED <<DOCKER_AVAILABLE, now, sock, disk, cycle, trace, req>>

\* Line 128.
UpdateUptime ==
    /\ pc = "uptime"
    /\ stats_cache' = [stats_cache EXCEPT !.uptime = now - stats_cache.start_time]
    /\ written' = [written EXCEPT !["uptime"] = cycle]
    /\ pc' = "storage"
    /\ UNCHANGED <<DOCKER_AVAILABLE, now, sock, disk, cycle, trace, req>>

\* A variant of line 131 whose total_size lives across the calls of
\* get_storage_used instead of starting at 0 in each.
UpdateStorage_accumulates(WalkOks, FateSet) ==
    /\ pc = "storage"
    /\ \E walk_ok \in WalkOks, fate \in [disk -> FateSet] :
        \E listing \in Listings(IF walk_ok THEN disk ELSE {}) :
            /\ stats_cache' = [stats_cache EXCEPT
                                  !.storage_used_mb = @ + get_storage_used(listing, fate)]
            /\ trace' = [trace EXCEPT
                            !.scan = IF ~walk_ok THEN "walk_error"
                                     ELSE IF \E f \in disk : fate[f] = "gone_before_getsize"
                                          THEN "raced" ELSE "ok",
                            !.stayed = IF walk_ok THEN {f \in disk : fate[f] = "stays"}
                                       ELSE {}]
            /\ disk' = IF walk_ok THEN {f \in disk : fate[f] = "stays"} ELSE disk
    /\ written' = [written EXCEPT !["storage_used_mb"] = cycle]
    /\ pc' = "containers"
    /\ UNCHANGED <<DOCKER_AVAILABLE, now, sock, cycle, req>>

\* Line 131.  walk_ok = FALSE is a root that os.walk cannot list (missing,
\* permission denied): os.walk swallows the error and yields nothing.
UpdateStorage(WalkOks, FateSet) ==
    /\ pc = "storage"
    /\ \E walk_ok \in WalkOks, fate \in [disk -> FateSet] :
        \E listing \in Listings(IF walk_ok THEN disk ELSE {}) :
            /\ stats_cache' = [stats_cache EXCEPT
                                  !.storage_used_mb = get_storage_used(listing, fate)]
            /\ trace' = [trace EXCEPT
                            !.scan = IF ~walk_ok THEN "walk_error"
                                     ELSE IF \E f \in disk : fate[f] = "gone_before_getsize"
                                          THEN "raced" ELSE "ok",
                            !.stayed = IF walk_ok THEN {f \in disk : fate[f] = "stays"}
                                       ELSE {}]
            /\ disk' = IF walk_ok THEN {f \in disk : fate[f] = "stays"} ELSE disk
    /\ written' = [written EXCEPT !["storage_used_mb"] = cycle]
    /\ pc' = "containers"
    /\ UNCHANGED <<DOCKER_AVAILABLE, now, sock, cycle, req>>

\* Line 134.  Without the socket every runtime call fails: docker.from_env()
\* raises, or (client built lazily) every containers.get raises.
UpdateContainers(Lookups) ==
    /\ pc = "containers"
    /\ \E from_env_ok \in BOOLEAN, lookup \in Lookups :
        /\ ~sock => (~from_env_ok \/ \A n \in Names : lookup[n] = "APIError")
        /\ stats_cache' = [stats_cache EXCEPT !.containers =
                              get_container_status(DOCKER_AVAILABLE, from_env_ok, lookup)]
        /\ trace' = [trace EXCEPT
                        !.runtime_called = DOCKER_AVAILABLE,
                        !.from_env_ok = DOCKER_AVAILABLE /\ from_env_ok,
                        !.lookup = IF DOCKER_AVAILABLE /\ from_env_ok
                                   THEN lookup ELSE [n \in Names |-> "none"]]
    /\ written' = [written EXCEPT !["containers"] = cycle]
    /\ pc' = "peers"
    /\ UNCHANGED <<DOCKER_AVAILABLE, now, sock, disk, cycle, req>>

\* A variant of update_stats without the try block of lines 114/144: the
\* exception of line 139 ends the thread.
UpdatePeers_uncaught(Replies) ==
    /\ pc = "peers"
    /\ \E reply \in Replies :
        LET conductor_stats == get_conductor_stats(reply) IN
        IF ~Truthy(conductor_stats)
        THEN /\ trace' = [trace EXCEPT !.admin = reply]
             /\ pc' = "stamp"
             /\ written' = [written EXCEPT !["peers_connected"] = cycle]
             /\ UNCHANGED stats_cache
        ELSE IF conductor_stats.json = "object"
        THEN /\ trace' = [trace EXCEPT !.admin = reply]
             /\ stats_cache' = [stats_cache EXCEPT
                                   !.peers_connected = DictGet(conductor_stats, 0)]
             /\ written' = [written EXCEPT !["peers_connected"] = cycle]
             /\ pc' = "stamp"
        ELSE /\ trace' = [trace EXCEPT !.admin = reply, !.error = TRUE]
             /\ pc' = "dead"
             /\ UNCHANGED <<stats_cache, written>>
    /\ UNCHANGED <<DOCKER_AVAILABLE, now, sock, disk, cycle, req>>

\* Lines 137-139, and the handler of lines 144-145 when line 139 raises
\* (conductor_stats is truthy but has no .get: a JSON array).
UpdatePeers(Replies) ==
    /\ pc = "peers"
    /\ \E reply \in Replies :
        LET conductor_stats == get_conductor_stats(reply) IN
        IF ~Truthy(conductor_stats)
        THEN /\ trace' = [trace EXCEPT !.admin = reply]
             /\ pc' = "stamp"
             /\ written' = [written EXCEPT !["peers_connected"] = cycle]
             /\ UNCHANGED stats_cache
        ELSE IF conductor_stats.json = "object"
        THEN /\ trace' = [trace EXCEPT !.admin = reply]
             /\ stats_cache' = [stats_cache EXCEPT
                                   !.peers_connected = DictGet(conductor_stats, 0)]
             /\ written' = [written EXCEPT !["peers_connected"] = cycle]
             /\ pc' = "stamp"
        ELSE /\ trace' = [trace EXCEPT !.admin = reply, !.error = TRUE]
             /\ pc' = "sleep"
             /\ UNCHANGED <<stats_cache, written>>
    /\ UNCHANGED <<DOCKER_AVAILABLE, now, sock, disk, cycle, req>>

\* Line 142.
StampLastUpdate ==
    /\ pc = "stamp"
    /\ stats_cache' = [stats_cache EXCEPT !.last_update = now]
    /\ written' = [written EXCEPT !["last_update"] = cycle]
    /\ pc' = "sleep"
    /\ UNCHANGED <<DOCKER_AVAILABLE, now, sock, disk, cycle, trace, req>>

\* A variant of line 147 that sleeps only for what the body left of the
\* interval (a schedule at a fixed rate).
Sleep_fixed_rate ==
    /\ pc = "sleep"
    /\ now' = IF cycle < MaxCycles /\ trace.body < SLEEP_SECONDS
              THEN now + (SLEEP_SECONDS - trace.body) ELSE now
    /\ cycle' = Min(cycle + 1, MaxCycles)
    /\ trace' = NoTrace
    /\ pc' = "health"
    /\ UNCHANGED <<stats_cache, DOCKER_AVAILABLE, sock, disk, written, req>>

\* Line 147, then the next iteration of line 113.  The clock stops together
\* with the count of the cycles.
Sleep ==
    /\ pc = "sleep"
    /\ now' = IF cycle < MaxCycles THEN now + SLEEP_SECONDS ELSE now
    /\ cycle' = Min(cycle + 1, MaxCycles)
    /\ trace' = NoTrace
    /\ pc' = "health"
    /\ UNCHANGED <<stats_cache, DOCKER_AVAILABLE, sock, disk, written, req>>

\* ------------------------------------------------------------- environment

\* Line 131 takes time: the walk over DATA_DIR has no timeout.  The cycle's
\* body takes d seconds in all.
Elapse(Durations) ==
    /\ pc = "storage" /\ trace.body = 0 /\ cycle < MaxCycles
    /\ \E d \in Durations :
        /\ now' = now + d
        /\ trace' = [trace EXCEPT !.body = d]
    /\ UNCHANGED <<stats_cache, DOCKER_AVAILABLE, pc, sock, disk, cycle, written, req>>

\* Between two scans another process (the conductor) creates or removes a
\* file under DATA_DIR.
FsChange ==
    /\ \E f \in Files : disk' = IF f \in disk THEN disk \ {f} ELSE disk \cup {f}
    /\ UNCHANGED <<stats_cache, DOCKER_AVAILABLE, pc, now, sock, cycle, written, trace, req>>

\* -------------------------------------------------------- the handler thread
pollerVars == <<stats_cache, DOCKER_AVAILABLE, pc, now, sock, disk, cycle, written, trace>>

Handlers == {"index", "api_status", "api_neighborhood", "health", "static_files"}

\* Flask dispatches a request to its handler.
Dispatch ==
    /\ req.rpc = "idle"
    /\ \E h \in Handlers :
        req' = [IdleReq EXCEPT !.handler = h,
                               !.rpc = CASE h = "api_status" -> "online"
                                         [] h = "index" -> "uptime_formatted"
                                         [] OTHER -> "body"]
    /\ UNCHANGED pollerVars

\* One more key of the dict literal of lines 161-171 has been evaluated.
Evaluated(key, value, field, next) ==
    /\ req' = [req EXCEPT !.resp = (key :> value) @@ req.resp,
                          !.from = IF field \in Fields THEN @ \cup {written[field]} ELSE @,
                          !.rpc = next]
    /\ UNCHANGED pollerVars

\* A variant of the first read of api_status that waits until the Poller is
\* between two cycles (a lock held by update_stats for the whole cycle body).
StatusOnline_waits ==
    /\ req.handler = "api_status" /\ req.rpc = "online"
    /\ pc = "sleep"
    /\ Evaluated("online", stats_cache.online, "online", "uptime_seconds")

\* Lines 162-163.
StatusOnline ==
    /\ req.handler = "api_status" /\ req.rpc = "online"
    /\ Evaluated("online", stats_cache.online, "online", "uptime_seconds")

\* Line 164.
StatusUptimeSeconds ==
    /\ req.handler = "api_status" /\ req.rpc = "uptime_seconds"
    /\ Evaluated("uptime_seconds", stats_cache.uptime, "uptime", "uptime_formatted")

\* Line 165.
StatusUptimeFormatted ==
    /\ req.handler = "api_status" /\ req.rpc = "uptime_formatted"
    /\ Evaluated("uptime_formatted", format_uptime(stats_cache.uptime), "uptime",
                 "vouches_processed")

\* Line 166.
StatusVouches ==
    /\ req.handler = "api_status" /\ req.rpc = "vouches_processed"
    /\ Evaluated("vouches_processed", stats_cache.vouches_processed, "vouches_processed",
                 "storage_used_mb")

\* Line 167.
StatusStorage ==
    /\ req.handler = "api_status" /\ req.rpc = "storage_used_mb"
    /\ Evaluated("storage_used_mb", round2(stats_cache.storage_used_mb), "storage_used_mb",
                 "peers_connected")

\* Line 168.
StatusPeers ==
    /\ req.handler = "api_status" /\ req.rpc = "peers_connected"
    /\ Evaluated("peers_connected", stats_cache.peers_connected, "peers_connected",
                 "containers")

\* Line 169.
StatusContainers ==
    /\ req.handler = "api_status" /\ req.rpc = "containers"
    /\ Evaluated("containers", stats_cache.containers, "containers", "last_update")

\* Lines 170-171 and 161: the last key, then jsonify with neighborhood_id.
StatusLastUpdate ==
    /\ req.handler = "api_status" /\ req.rpc = "last_update"
    /\ req' = [req EXCEPT
                  !.resp = ("last_update" :> stats_cache.last_update)
                           @@ ("neighborhood_id" :> NEIGHBORHOOD_ID)
                           @@ ("status" :> HTTP_OK) @@ req.resp,
                  !.from = @ \cup {written["last_update"]},
                  !.rpc = "done"]
    /\ UNCHANGED pollerVars

\* A variant of index that refreshes the uptime in the cache before it
\* formats it.
IndexUptime_refreshes ==
    /\ req.handler = "index" /\ req.rpc = "uptime_formatted"
    /\ stats_cache' = [stats_cache EXCEPT !.uptime = now - stats_cache.start_time + 1]
    /\ req' = [req EXCEPT
                  !.resp = ("uptime_formatted" :> format_uptime(stats_cache'.uptime)) @@ req.resp,
                  !.from = @ \cup {written["uptime"]},
                  !.rpc = "render"]
    /\ UNCHANGED <<DOCKER_AVAILABLE, pc, now, sock, disk, cycle, written, trace>>

\* Line 155: the argument uptime_formatted of render_template.
IndexUptime ==
    /\ req.handler = "index" /\ req.rpc = "uptime_formatted"
    /\ Evaluated("uptime_formatted", format_uptime(stats_cache.uptime), "uptime", "render")

\* Lines 152-154: the template renders from the dict it was handed.
IndexRender ==
    /\ req.handler = "index" /\ req.rpc = "render"
    /\ req' = [req EXCEPT
                  !.resp = ("stats" :> stats_cache) @@ ("neighborhood_id" :> NEIGHBORHOOD_ID)
                           @@ ("status" :> HTTP_OK) @@ req.resp,
                  !.from = @ \cup {written[f] : f \in Fields},
                  !.rpc = "done"]
    /\ UNCHANGED pollerVars

\* Lines 176-179.
ApiNeighborhood ==
    /\ req.handler = "api_neighborhood" /\ req.rpc = "body"
    /\ req' = [req EXCEPT
                  !.resp = ("id" :> NEIGHBORHOOD_ID)
                           @@ ("join_command" :> <<"curl -fsSL https://ourblock.community/install.sh | bash -s -- -n ", NEIGHBORHOOD_ID>>)
                           @@ ("status" :> HTTP_OK),
                  !.rpc = "done"]
    /\ UNCHANGED pollerVars

\* A variant of health that reports the monitored node instead of the
\* dashboard process.
Health_reports_node ==
    /\ req.handler = "health" /\ req.rpc = "body"
    /\ req' = [req EXCEPT
                  !.resp = IF stats_cache.online
                           THEN ("body" :> "OK") @@ ("status" :> HTTP_OK)
                           ELSE ("body" :> "offline") @@ ("status" :> 503),
                  !.rpc = "done"]
    /\ UNCHANGED pollerVars

\* Line 184.
Health ==
    /\ req.handler = "health" /\ req.rpc = "body"
    /\ req' = [req EXCEPT !.resp = ("body" :> "OK") @@ ("status" :> HTTP_OK),
                          !.rpc = "done"]
    /\ UNCHANGED pollerVars

\* Line 189: the file, or 404 when static/ has no such file.
StaticFiles ==
    /\ req.handler = "static_files" /\ req.rpc = "body"
    /\ \E s \in {HTTP_OK, HTTP_NOT_FOUND} :
        req' = [req EXCEPT !.resp = ("status" :> s), !.rpc = "done"]
    /\ UNCHANGED pollerVars

\* The response has been sent; the thread takes the next request.
Respond ==
    /\ req.rpc = "done"
    /\ req' = IdleReq
    /\ UNCHANGED pollerVars

Server ==
    \/ Dispatch
    \/ StatusOnline \/ StatusUptimeSeconds \/ StatusUptimeFormatted \/ StatusVouches
    \/ StatusStorage \/ StatusPeers \/ StatusContainers \/ StatusLastUpdate
    \/ IndexUptime \/ IndexRender
    \/ ApiNeighborhood \/ Health \/ StaticFiles
    \/ Respond

\* --------------------------------------------------------- specifications

\* The answers the probes meet in the specification of the whole process:
\* one success and one failure of each.
FewHttpReplies == {Raised, Response(HTTP_OK)}
FewLookups == {[n \in Names |-> "running"]}
FewAdminReplies == {AdminReply("raised", 0, None), AdminReply("response", HTTP_OK, JsonObject({"peers"}, 3))}

InitServing == Init /\ sock /\ disk = Files

Next ==
    \/ HealthPrimary(FewHttpReplies)
    \/ HealthFallback(FewHttpReplies)
    \/ UpdateUptime
    \/ UpdateStorage(BOOLEAN, {"stays"})
    \/ UpdateContainers(FewLookups)
    \/ UpdatePeers(FewAdminReplies)
    \/ StampLastUpdate
    \/ Sleep
    \/ Server

Spec == InitServing /\ [][Next]_vars

\* The Poller alone, with every answer of the health and admin endpoints and
\* every fate of the scanned files (a file that has vanished stays away).
SomeLookups ==
    {[n \in Names |-> "running"], [n \in Names |-> "APIError"],
     [n \in Names |-> IF n = "lair" THEN "NotFound" ELSE "running"]}

InitPoller == Init /\ disk = Files

PollerStep ==
    \/ HealthPrimary(HttpReplies)
    \/ HealthFallback(HttpReplies)
    \/ UpdateUptime
    \/ UpdateStorage(BOOLEAN, Fates)
    \/ UpdateContainers(SomeLookups)
    \/ UpdatePeers(AdminReplies)
    \/ StampLastUpdate
    \/ Sleep

SpecPoller == InitPoller /\ [][PollerStep]_vars

\* The Poller alone, with every combination of container lookups.
AllLookups == [Names -> LookupOutcomes]

NextInspect ==
    \/ HealthPrimary(FewHttpReplies)
    \/ HealthFallback(FewHttpReplies)
    \/ UpdateUptime
    \/ UpdateStorage({TRUE}, {"stays"})
    \/ UpdateContainers(AllLookups)
    \/ UpdatePeers(FewAdminReplies)
    \/ StampLastUpdate
    \/ Sleep

SpecInspect == InitPoller /\ [][NextInspect]_vars

\* The Poller alone over every content of DATA_DIR, with every fate of the
\* scanned files.
InitScan == Init /\ DOCKER_AVAILABLE /\ sock

NextScan ==
    \/ HealthPrimary(FewHttpReplies)
    \/ HealthFallback(FewHttpReplies)
    \/ UpdateUptime
    \/ UpdateStorage(BOOLEAN, Fates)
    \/ UpdateContainers(FewLookups)
    \/ UpdatePeers(FewAdminReplies)
    \/ StampLastUpdate
    \/ Sleep
    \/ FsChange

SpecScan == InitScan /\ [][NextScan]_vars

\* The uptimes at which the formatting is explored: around the changes of
\* minute, hour and day, and around the spec's example of a day, an hour, a
\* minute and a second.
UptimeMarks == {0, 60, 3600, 7200, 86400, 90061, 172800}
UptimeSamples ==
    {s \in UNION {(m - UptimeDelta)..(m + UptimeDelta) : m \in UptimeMarks} : s >= 0}

\* The process after u seconds, at the moment its Poller has computed the
\* uptime (line 128) and is inside the scan of line 131, on a host without
\* the Docker SDK; the handler threads serve requests meanwhile.
InitFormat ==
    \E u \in UptimeSamples :
        /\ stats_cache =
             [online |-> TRUE, uptime |-> u, start_time |-> T0, vouches_processed |-> 0,
              storage_used_mb |-> 0, peers_connected |-> 0, containers |-> EmptyDict,
              last_update |-> IF u < SLEEP_SECONDS THEN NoTimestamp ELSE T0 + u - SLEEP_SECONDS]
        /\ DOCKER_AVAILABLE = FALSE
        /\ sock = FALSE
        /\ disk = {}
        /\ pc = "storage"
        /\ now = T0 + u
        /\ cycle = IF u < SLEEP_SECONDS THEN 1 ELSE MaxCycles
        /\ written = [f \in Fields |->
                         IF f \in {"online", "uptime"} THEN cycle
                         ELSE IF f = "peers_connected" THEN 0
                         ELSE cycle - 1]
        /\ trace = [NoTrace EXCEPT !.primary = Response(HTTP_OK), !.requests = 1,
                                   !.online_writes = 1]
        /\ req = IdleReq

SpecFormat == InitFormat /\ [][Server]_vars

\* The Poller with a body of every duration up to MaxBody.
BodyDurations == 1..MaxBody

InitTiming == Init /\ DOCKER_AVAILABLE /\ sock /\ disk = Files

NextTiming ==
    \/ HealthPrimary(FewHttpReplies)
    \/ HealthFallback(FewHttpReplies)
    \/ UpdateUptime
    \/ Elapse(BodyDurations)
    \/ UpdateStorage({TRUE}, {"stays"})
    \/ UpdateContainers(FewLookups)
    \/ UpdatePeers(FewAdminReplies)
    \/ StampLastUpdate
    \/ Sleep

SpecTiming == InitTiming /\ [][NextTiming]_vars

\* Fairness: the operating system schedules the Poller thread, and every
\* probe call returns (the requests time out after 5 s).
SpecPollerFair == SpecPoller /\ WF_vars(PollerStep)

\* Fairness of the handler threads only (app.run(threaded=True), line 203):
\* the Poller may stay inside a probe call for ever.
SpecServing == Spec /\ WF_vars(Server)

\* ------------------------------------------------------------------ claims

AfterHealth == pc \in {"uptime", "storage", "containers", "peers", "stamp", "sleep"}
AfterContainers == pc \in {"peers", "stamp", "sleep"}
AfterPeers == pc \in {"stamp", "sleep"}

HealthFailed(reply) == reply.kind = "raised" \/ reply.status_code # HTTP_OK
FallbackUp(reply) == reply.kind = "response" /\ reply.status_code \in {HTTP_OK, HTTP_NOT_FOUND}

\* The admin request failed: timeout or connection error, non-200 status,
\* malformed body, or a body without the peer-count field.
AdminFailed(reply) ==
    \/ reply.kind = "raised"
    \/ reply.status_code # HTTP_OK
    \/ reply.body.json = "malformed"
    \/ "peers" \notin reply.body.keys

StatusKeys ==
    {"neighborhood_id", "online", "uptime_seconds", "uptime_formatted", "vouches_processed",
     "storage_used_mb", "peers_connected", "containers", "last_update"}

\* C1: every answer of api_status or index is made of snapshot fields that
\* all come from one poll cycle (or are all the initial defaults).
C1_OneCycle ==
    (req.rpc = "done" /\ req.handler \in {"api_status", "index"})
        => Cardinality(req.from) <= 1

\* C2: when the admin request of a cycle fails in any way, peers_connected
\* after the cycle equals its value before the cycle.
C2_PeersSticky ==
    (AfterPeers /\ AdminFailed(trace.admin))
        => stats_cache.peers_connected = trace.peers_before

\* C3: whatever the probes of a cycle meet, the cycle has run every step,
\* the stamp of last_update included, when it goes to sleep.
C3_CycleCompletes ==
    pc = "sleep" => /\ \A f \in Fields : written[f] = cycle
                    /\ stats_cache.last_update = now

\* C4: the Poller reaches the sleep step and begins another cycle, again and
\* again, whatever happens inside a cycle body.
C4_LoopNeverDies == ([]<>(pc = "sleep")) /\ ([]<>(pc = "health"))

\* C4 witness: the first cycle was aborted by an exception (last_update never
\* stamped) and the second cycle has begun.
C4_Witness ==
    /\ pc = "health" /\ cycle = 2
    /\ written["online"] = 1 /\ written["last_update"] = 0

\* C5: when /health fails in any way, a non-200 status included, the root is
\* requested and online is true iff that answer is 200 or 404.
C5_FallbackOnAnyFailure ==
    (AfterHealth /\ HealthFailed(trace.primary))
        => /\ trace.fallback # NoCall
           /\ stats_cache.online = FallbackUp(trace.fallback)

\* C6: primary 200 gives online; primary unreachable gives online iff the
\* fallback answers 200 or 404; at most one primary and one fallback request
\* are made in a cycle.
C6_HealthTable ==
    /\ trace.requests <= 2
    /\ (trace.fallback # NoCall) => (trace.primary = Raised /\ trace.requests = 2)
    /\ AfterHealth =>
        /\ trace.primary # NoCall
        /\ trace.primary = Response(HTTP_OK) => (stats_cache.online /\ trace.requests = 1)
        /\ trace.primary = Raised =>
             /\ trace.fallback # NoCall
             /\ stats_cache.online = FallbackUp(trace.fallback)

C6_Witness ==
    /\ pc = "sleep"
    /\ trace.primary = Raised /\ trace.fallback = Response(HTTP_NOT_FOUND)
    /\ stats_cache.online

\* C7: when the runtime client cannot be initialized (library absent or
\* socket absent), every call returns 'docker unavailable' for the three
\* names and attempts no runtime call.
C7_DegradedMode ==
    (AfterContainers /\ (~DOCKER_AVAILABLE \/ ~sock))
        => /\ stats_cache.containers = [n \in Names |-> "docker unavailable"]
           /\ ~trace.runtime_called

\* C8: in normal mode each name's status is decided by its own lookup: the
\* lifecycle state, 'not found', or 'unknown'.
C8_PerNameStatus ==
    (AfterContainers /\ trace.from_env_ok)
        => \A n \in Names :
             stats_cache.containers[n] =
                IF trace.lookup[n] \in LifecycleStates THEN trace.lookup[n]
                ELSE IF trace.lookup[n] = "NotFound" THEN "not found"
                ELSE "unknown"

C8_Witness ==
    /\ pc = "sleep"
    /\ trace.lookup = [n \in Names |-> IF n = "conductor" THEN "exited"
                                       ELSE IF n = "lair" THEN "NotFound" ELSE "APIError"]
    /\ stats_cache.containers["conductor"] = "exited"
    /\ stats_cache.containers["lair"] = "not found"
    /\ stats_cache.containers["ui"] = "unknown"

\* C9: every request is eventually answered, whatever the Poller does or
\* fails to do, and no step of a handler moves the Poller.
C9_NeverWaits ==
    /\ (req.rpc # "idle") ~> (req.rpc = "done")
    /\ [][req' # req => UNCHANGED <<pc, cycle, trace, written, stats_cache>>]_vars

\* C9 witness: api_status answered while a cycle is in progress.
C9_Witness ==
    /\ req.rpc = "done" /\ req.handler = "api_status"
    /\ pc = "storage" /\ cycle = 2

ContainersFailed ==
    ~DOCKER_AVAILABLE \/ ~trace.from_env_ok \/ \A n \in Names : trace.lookup[n] = "APIError"

AllProbesFailed ==
    /\ trace.primary = Raised /\ ~FallbackUp(trace.fallback)
    /\ trace.scan \in {"walk_error", "raced"}
    /\ ContainersFailed
    /\ AdminFailed(trace.admin)

\* C10: api_status always answers 200 with all documented keys, and after a
\* cycle in which every probe failed the cache holds online=false,
\* storage=0, 'docker unavailable' for the three names, and the previous
\* peer count.
C10_AlwaysFullAnswer ==
    /\ (req.rpc = "done" /\ req.handler = "api_status")
          => (req.resp["status"] = HTTP_OK /\ DOMAIN req.resp = StatusKeys \cup {"status"})
    /\ (pc = "sleep" /\ AllProbesFailed)
          => /\ stats_cache.online = FALSE
             /\ stats_cache.storage_used_mb = 0
             /\ stats_cache.containers = [n \in Names |-> "docker unavailable"]
             /\ stats_cache.peers_connected = trace.peers_before

StatusStrings == LifecycleStates \cup {"not found", "unknown", "docker unavailable"}

\* C11 as stated: in every cache state, from process start onward, the key
\* set of containers is exactly the three logical names.
C11_FixedKeys == DOMAIN stats_cache.containers = Names

\* C11 as amended: containers is the empty mapping until the first container
\* inspection has run, and from then on a mapping of exactly the three
\* logical names to a status string.
C11_FixedKeysOnceInspected ==
    /\ written["containers"] = 0 => stats_cache.containers = EmptyDict
    /\ written["containers"] > 0 =>
         /\ DOMAIN stats_cache.containers = Names
         /\ \A n \in Names : stats_cache.containers[n] \in StatusStrings

C11_Witness ==
    /\ pc = "sleep" /\ written["containers"] = 2
    /\ DOMAIN stats_cache.containers = Names
    /\ stats_cache.containers["lair"] = "not found"
    /\ stats_cache.containers["ui"] = "running"

\* C12: GET /health answers the body 'OK' with status 200, whatever the
\* cache holds and wherever the Poller is.
C12_HealthAlwaysOK ==
    (req.rpc = "done" /\ req.handler = "health")
        => req.resp = ("body" :> "OK") @@ ("status" :> HTTP_OK)

\* C12 witness: answered in the middle of a cycle, over a cache whose
\* previous cycle found the node offline and the data root unreadable.
C12_Witness ==
    /\ req.rpc = "done" /\ req.handler = "health"
    /\ req.resp["body"] = "OK" /\ req.resp["status"] = HTTP_OK
    /\ pc = "fallback" /\ cycle = 2
    /\ ~stats_cache.online /\ stats_cache.storage_used_mb = 0
    /\ stats_cache.peers_connected = 0

\* C17: no step of a handler changes any field of stats_cache.
C17_HandlersReadOnly == [][(req' # req) => (stats_cache' = stats_cache)]_vars

\* C17 witness: index has rendered the cache of a completed second cycle.
C17_Witness ==
    /\ req.rpc = "done" /\ req.handler = "index"
    /\ req.resp["stats"] = stats_cache
    /\ written["last_update"] = 2 /\ stats_cache.uptime = SLEEP_SECONDS

\* C18: start_time keeps the value captured at process start and
\* vouches_processed stays 0, after any number of cycles and requests.
C18_InertFields ==
    /\ stats_cache.start_time = T0
    /\ stats_cache.vouches_processed = 0

\* C18 witness: a request answered after a second cycle that found the node
\* unreachable.
C18_Witness ==
    /\ pc = "sleep" /\ cycle = 2 /\ now > T0
    /\ trace.primary = Raised /\ trace.fallback = Raised
    /\ req.rpc = "done" /\ req.handler = "api_status"
    /\ req.resp["vouches_processed"] = 0

\* C19: online is written at most once per cycle, with the final health
\* result: while the primary check has failed and the fallback is pending
\* nothing has been written, and a cycle whose fallback succeeds writes
\* online = true only, so a node that stays reachable through the fallback
\* is never shown offline.
C19_OnlineWrittenOnce ==
    /\ trace.online_writes <= 1
    /\ pc = "fallback" => trace.online_writes = 0
    /\ AfterHealth => trace.online_writes = 1
    /\ (AfterHealth /\ trace.primary = Raised /\ FallbackUp(trace.fallback))
          => stats_cache.online

\* C19 witness: in the second cycle the primary check has raised and the
\* fallback is pending; the cache still holds online = true from the first
\* cycle and api_status has just read it.
C19_Witness ==
    /\ pc = "fallback" /\ cycle = 2 /\ trace.primary = Raised
    /\ stats_cache.online /\ written["online"] = 1
    /\ req.handler = "api_status" /\ req.rpc = "uptime_seconds"
    /\ req.resp["online"] = TRUE

AfterStorage == pc \in {"containers", "peers", "stamp", "sleep"}

RECURSIVE SumSizes(_)
SumSizes(S) ==
    IF S = {} THEN 0
    ELSE LET f == CHOOSE x \in S : TRUE IN Size(f) + SumSizes(S \ {f})

\* C13: a scan of a tree that can be listed and does not change under it
\* returns exactly the sum of the sizes of its files (0 for an empty root),
\* in the first cycle and in every later one: nothing is carried over from
\* one scan to the next.
C13_ExactSum ==
    (AfterStorage /\ trace.scan = "ok" /\ trace.stayed = disk)
        => stats_cache.storage_used_mb = SumSizes(disk)

\* C13 witness: the scan of the second cycle over the three files.
C13_Witness ==
    /\ pc = "containers" /\ cycle = 2 /\ written["storage_used_mb"] = 2
    /\ trace.scan = "ok" /\ disk = Files
    /\ stats_cache.storage_used_mb = 12 * BYTES_PER_MB + BYTES_PER_MB \div 2 + 5243

\* C15: when files vanish during a scan, also between the existence check
\* and the size lookup, the result is the sum of the sizes of the listed
\* files that exist throughout the scan.
C15_VanishedSkipped ==
    (AfterStorage /\ trace.scan \in {"ok", "raced"})
        => stats_cache.storage_used_mb = SumSizes(trace.stayed)

\* The rendering the table of the uptime formatting gives for s seconds.
UptimeTable(s) ==
    LET D == s \div 86400
        H == (s % 86400) \div 3600
        M == (s % 3600) \div 60
    IN  IF s < 3600 THEN <<<<M, "m">>>>
        ELSE IF s < 86400 THEN <<<<H, "h">>, <<M, "m">>>>
        ELSE <<<<D, "d">>, <<H, "h">>, <<M, "m">>>>

\* C14: the formatted uptime a handler returns is "Mm" below an hour,
\* "Hh Mm" below a day and "Dd Hh Mm" from a day on, with D, H, M the whole
\* days, the hours within the day and the minutes within the hour; 0 and 59
\* give "0m", 60 gives "1m", 3600 gives "1h 0m", 90061 gives "1d 1h 1m".
C14_UptimeFormat ==
    "uptime_formatted" \in DOMAIN req.resp =>
        LET s == stats_cache.uptime
            text == req.resp["uptime_formatted"]
        IN  /\ text = UptimeTable(s)
            /\ s \in {0, 59} => text = <<<<0, "m">>>>
            /\ s = 60 => text = <<<<1, "m">>>>
            /\ s = 3600 => text = <<<<1, "h">>, <<0, "m">>>>
            /\ s = 90061 => text = <<<<1, "d">>, <<1, "h">>, <<1, "m">>>>

\* C14 witness: /api/status answers after a day, an hour, a minute and a
\* second.
C14_Witness ==
    /\ req.handler = "api_status" /\ req.rpc = "done"
    /\ req.resp["uptime_seconds"] = 90061
    /\ req.resp["uptime_formatted"] = <<<<1, "d">>, <<1, "h">>, <<1, "m">>>>

\* A step that begins a cycle.
CycleBegins == pc # "health" /\ pc' = "health"

\* C16 as stated: the cycles follow one another, none overlapping, skipped
\* or queued, and after a body that took longer than the interval the next
\* cycle begins at once, without a sleep.
C16_NoSleepAfterLongCycle ==
    [][CycleBegins =>
          /\ pc = "sleep" /\ cycle' = Min(cycle + 1, MaxCycles)
          /\ trace.body > SLEEP_SECONDS => now' = now]_vars

\* C16, amended: the cycles follow one another, none overlapping, skipped
\* or queued: a cycle begins only when the body of the one before has come
\* to its end, and then exactly SLEEP_SECONDS later, however long that body
\* took.
C16_FixedDelay ==
    [][/\ now' >= now
       /\ CycleBegins =>
             /\ pc = "sleep" /\ cycle' = Min(cycle + 1, MaxCycles) /\ trace' = NoTrace
             /\ cycle < MaxCycles => now' = now + SLEEP_SECONDS]_vars

\* C16 witness: the second cycle begins SLEEP_SECONDS after a body that took
\* MaxBody seconds, more than the interval.
C16_Witness ==
    /\ pc = "health" /\ cycle = 2 /\ MaxBody > SLEEP_SECONDS
    /\ now = T0 + MaxBody + SLEEP_SECONDS
====
